---- MODULE Spec2Model ----
(***************************************************************************)
(* Model of train.py: train_one_epoch (micro-batch gradient accumulation   *)
(* and metric accumulation) and train_and_evaluate (epoch loop, best       *)
(* tracking, checkpointing and resume).                                    *)
(*                                                                         *)
(* Macro-F1 scores are floats in the source; they are modelled as integer  *)
(* hundredths (0.10 is 10), which keeps their order and their ties.        *)
(* utils.py (save_checkpoint, load_checkpoint, save_dict_to_json,          *)
(* Accumulate) is not part of the source tree: its behaviour is taken from *)
(* the specification's interface description.                              *)
(***************************************************************************)
EXTENDS Integers, Sequences, FiniteSets, TLC

\* ------------------------------------------------------------------ bounds
MaxEpochs == 3        \* params.num_epochs ranges over 0..MaxEpochs
MaxSaveEvery == 2     \* params.save_every ranges over 1..MaxSaveEvery
MaxRunK == 1          \* params.update_grad_every in the epoch-loop specification
MaxRunBatches == 1    \* batches per epoch in the epoch-loop specification
MaxScore == 2         \* macro-F1 values are 0.00, 0.05, ..., 0.05 * MaxScore
MaxRuns == 2          \* invocations of the process (first start plus restarts)
MaxK == 4             \* params.update_grad_every in the training-pass specification
MaxBatches == 3       \* batches per epoch in the training-pass specification
MaxRows == 2          \* rows (samples) per batch
MaxLoss == 2          \* loss values are 1..MaxLoss
MaxPred == 6          \* prediction scores and thresholds are 0.0, 0.1, ..., 0.1 * MaxPred
MaxPredRows == 3      \* prediction scores of a batch in the binarization specification

Scores == {5 * s : s \in 0..MaxScore}

SeqsUpTo(S, n) == UNION {[1..k -> S] : k \in 0..n}

\* batches of the given sizes and losses; every prediction score is 0.5
Batches(rows, losses) ==
    {[rows |-> r, loss |-> l, y_pred |-> [k \in 1..r |-> 5]] : r \in rows, l \in losses}

\* --------------------------------------------------------------- variables
VARIABLES
    params,               \* [num_epochs, update_grad_every, save_every, threshold]
    data_loader,          \* train_loader: the sequence of batches of one epoch
    pc,                   \* position of the process
    error,                \* the exception that ended the process, or "none"
    run,                  \* number of this invocation of the process
    restore_file,         \* "none", "last" or "best"
    start_epoch, epoch,
    best_train_macro_f1, best_test_macro_f1,
    train_macro_f1, test_macro_f1,
    is_train_best, is_test_best,
    state,                \* the checkpoint record built at line 170
    bound,                \* names of the function locals that are bound
    model_state,          \* model/optimizer state: optimizer steps it went through
    grad,                 \* batches whose gradient is accumulated and not yet applied
    batch_idx,            \* batches the iterator of line 44 has handed out
    i, loss,              \* locals of train_one_epoch
    loss_batch,           \* recorded losses
    accumulate,           \* rows held by utils.Accumulate: <<batch, row>>
    outputs,              \* the binarized predictions utils.Accumulate holds, row by row
    steps,                \* optimizer.step() calls of this pass: the batches each applied
    summary_batch,        \* value returned by train_one_epoch
    ckpt,                 \* checkpoint slots on disk: "last", "best"
    periodic,             \* epochs that have a periodic snapshot on disk
    epoch_json,           \* per-epoch metric files on disk: <<partition, N>>
    best_json,            \* best_train_f1.json / best_test_f1.json
    saves,                \* save_checkpoint calls of this run, in order
    trajectory,           \* per completed epoch of this run: test score and decision
    last_completed,       \* loop index of the latest iteration that wrote its checkpoint
    carried,              \* the trackers of a process that is never interrupted
    carried_at,           \* the value of carried when each checkpoint slot was written
    phases,               \* <<N, phase>>: work finished for the epoch numbered N, all runs
    iteration_log         \* what the current loop iteration has done so far, in order

cfgvars == <<params, data_loader>>
procvars == <<pc, error, run, restore_file, start_epoch, epoch,
              best_train_macro_f1, best_test_macro_f1, train_macro_f1,
              test_macro_f1, is_train_best, is_test_best, state, bound>>
trainvars == <<model_state, grad, batch_idx, i, loss, loss_batch, accumulate, outputs,
               steps, summary_batch>>
diskvars == <<ckpt, periodic, epoch_json, best_json>>
histvars == <<saves, trajectory, last_completed, carried, carried_at, phases,
              iteration_log>>
vars == <<cfgvars, procvars, trainvars, diskvars, histvars>>

NoCheckpoint == [exists |-> FALSE, epoch |-> 0, state_dict |-> 0]
NoBestJson == [exists |-> FALSE, epoch |-> 0, macro_f1 |-> 0]
NoSummary == [rows |-> 0, loss_sum |-> 0, loss_n |-> 0]
NoTrackers == [train |-> 0, test |-> 0]

RECURSIVE SumSeq(_)
SumSeq(s) == IF s = <<>> THEN 0 ELSE s[1] + SumSeq(Tail(s))

\* ------------------------------------------------- train_one_epoch helpers
\* line 53: the step after every update_grad_every-th batch
StepDue(idx, K) == (idx + 1) % K = 0

\* a flush test that takes the index for the count of batches
TailFlushDue_index(idx, K) == idx % K # 0

\* line 77: the flush of an incomplete last group
TailFlushDue(idx, K) == (idx + 1) % K # 0

\* the losses of the batches in g, added up
RECURSIVE GroupLoss(_)
GroupLoss(g) ==
    IF g = {} THEN 0
    ELSE LET b == CHOOSE x \in g : TRUE
         IN  data_loader[b + 1].loss + GroupLoss(g \ {b})

\* a step that records the loss summed over its group
ApplyStep_groupSum(g, l) ==
    /\ steps' = Append(steps, g)
    /\ model_state' = model_state + 1
    /\ grad' = {}
    /\ loss_batch' = Append(loss_batch, GroupLoss(g))

\* a step that leaves the accumulated gradients in place
ApplyStep_keepGrad(g, l) ==
    /\ steps' = Append(steps, g)
    /\ model_state' = model_state + 1
    /\ grad' = g
    /\ loss_batch' = Append(loss_batch, l)

\* lines 54-56: optimizer.step(); optimizer.zero_grad(); loss_batch.append(loss)
ApplyStep(g, l) ==
    /\ steps' = Append(steps, g)
    /\ model_state' = model_state + 1
    /\ grad' = {}
    /\ loss_batch' = Append(loss_batch, l)

\* utils.Accumulate.update: row-wise append of the batch
AccumulateUpdate(acc, b, rows) == acc \o [r \in 1..rows |-> <<b, r>>]

\* an accumulator fed only inside the branch of line 53
FeedAccumulator_onStep(acc, idx, b) ==
    IF StepDue(idx, params.update_grad_every)
       THEN AccumulateUpdate(acc, idx, b.rows)
       ELSE acc

\* lines 58-63: every batch is handed to the accumulator
FeedAccumulator(acc, idx, b) == AccumulateUpdate(acc, idx, b.rows)

\* a comparison that counts a score equal to the threshold as positive
Binarize_inclusive(y_pred, threshold) ==
    [k \in DOMAIN y_pred |-> IF y_pred[k] >= threshold THEN 1 ELSE 0]

\* a comparison turned around
Binarize_below(y_pred, threshold) ==
    [k \in DOMAIN y_pred |-> IF y_pred[k] < threshold THEN 1 ELSE 0]

\* lines 58-59: (y_pred > params.threshold).astype(np.int32)
Binarize(y_pred, threshold) ==
    [k \in DOMAIN y_pred |-> IF y_pred[k] > threshold THEN 1 ELSE 0]

\* lines 82-88: the summary; loss_avg is loss_sum / loss_n
Summary(acc, losses) ==
    [rows |-> Len(acc), loss_sum |-> SumSeq(losses), loss_n |-> Len(losses)]

\* ------------------------------------------------------ train_one_epoch
\* lines 44-73: one iteration of the training loop
TrainBatch ==
    /\ pc = "batch"
    /\ batch_idx < Len(data_loader)
    /\ LET b == data_loader[batch_idx + 1]
           g == grad \cup {batch_idx}
       IN  /\ i' = batch_idx
           /\ loss' = b.loss
           /\ bound' = bound \cup {"i", "loss"}
           /\ IF StepDue(batch_idx, params.update_grad_every)
                 THEN ApplyStep(g, b.loss)
                 ELSE /\ grad' = g
                      /\ UNCHANGED <<steps, model_state, loss_batch>>
           /\ accumulate' = FeedAccumulator(accumulate, batch_idx, b)
           /\ outputs' = outputs \o Binarize(b.y_pred, params.threshold)
           /\ batch_idx' = batch_idx + 1
    /\ UNCHANGED <<cfgvars, diskvars, histvars, summary_batch>>
    /\ UNCHANGED <<pc, error, run, restore_file, start_epoch, epoch,
                   best_train_macro_f1, best_test_macro_f1, train_macro_f1,
                   test_macro_f1, is_train_best, is_test_best, state>>

\* lines 75-80: the else clause of the for loop, run when the loader is exhausted
TrainLoopElse ==
    /\ pc = "batch"
    /\ batch_idx = Len(data_loader)
    /\ IF "i" \notin bound
          THEN /\ pc' = "error"
               /\ error' = "UnboundLocalError: i"
               /\ UNCHANGED <<steps, model_state, grad, loss_batch>>
          ELSE /\ pc' = "finalize"
               /\ error' = error
               /\ IF TailFlushDue(i, params.update_grad_every)
                     THEN ApplyStep(grad, loss)
                     ELSE UNCHANGED <<steps, model_state, grad, loss_batch>>
    /\ UNCHANGED <<cfgvars, diskvars, histvars, summary_batch, batch_idx, i, loss,
                   accumulate, outputs>>
    /\ UNCHANGED <<run, restore_file, start_epoch, epoch, best_train_macro_f1,
                   best_test_macro_f1, train_macro_f1, test_macro_f1,
                   is_train_best, is_test_best, state, bound>>

\* lines 82-88: finalize the accumulator, build the summary and return
TrainReturn ==
    /\ pc = "finalize"
    /\ IF Len(loss_batch) = 0
          THEN /\ pc' = "error"
               /\ error' = "ZeroDivisionError"
               /\ UNCHANGED <<summary_batch, phases, iteration_log>>
          ELSE /\ pc' = "eval_test"
               /\ error' = error
               /\ summary_batch' = Summary(accumulate, loss_batch)
               /\ phases' = phases \cup {<<epoch + 1, "train">>}
               /\ iteration_log' = Append(iteration_log, "train")
    /\ UNCHANGED <<cfgvars, diskvars, saves, trajectory, last_completed, carried, carried_at>>
    /\ UNCHANGED <<model_state, grad, batch_idx, i, loss, loss_batch, accumulate, outputs,
                   steps>>
    /\ UNCHANGED <<run, restore_file, start_epoch, epoch, best_train_macro_f1,
                   best_test_macro_f1, train_macro_f1, test_macro_f1,
                   is_train_best, is_test_best, state, bound>>

\* --------------------------------------------------- train_and_evaluate helpers
\* a comparison that leaves ties out
IsBest_strict(score, best) == score > best

\* a comparison against the initial value instead of the tracker
IsBest_initial(score, best) == score >= 0

\* a comparison that lets the loss of the training pass count
IsBest_withTrainingLoss(score, best) == score + 5 * summary_batch.loss_sum >= best + 5

\* lines 123, 126: ties count as an improvement
IsBest(score, best) == score >= best

\* trackers that a resumed run takes over from the process that wrote the slot
TrackersAtStart_restored(rf) == IF rf = "none" THEN NoTrackers ELSE carried_at[rf]

\* lines 97-98: both trackers are 0.0 at the start, whatever restore_file is
TrackersAtStart(rf) == NoTrackers

\* line 106: the first loop index of a resumed run
StartEpoch(loaded_epoch) == loaded_epoch + 1

\* a record stamped with the loop index
CheckpointState_index(e, m) == [exists |-> TRUE, epoch |-> e, state_dict |-> m]

\* a record stamped one epoch ahead
CheckpointState_ahead(e, m) == [exists |-> TRUE, epoch |-> e + 2, state_dict |-> m]

\* lines 170-174: the checkpoint record of the loop iteration e
CheckpointState(e, m) == [exists |-> TRUE, epoch |-> e + 1, state_dict |-> m]

\* a save that takes either partition's decision
SaveIsBest_either(train_best, test_best) == train_best \/ test_best

\* line 176: the is_best argument of the save inside the loop
SaveIsBest(train_best, test_best) == test_best

\* line 178: the periodic-snapshot argument of the save inside the loop
PeriodicDue(e, S) == (e + 1) % S = 0

\* utils.load_checkpoint: restores model and optimizer, returns the stored epoch
LoadCheckpoint(rec) == rec.epoch

\* utils.save_checkpoint(state, is_best, dir, also_save_periodic)
SaveCheckpointSlots(slots, rec, is_best) ==
    [slots EXCEPT !["last"] = rec, !["best"] = IF is_best THEN rec ELSE @]

SaveCheckpointPeriodic(snaps, rec, also_periodic) ==
    IF also_periodic THEN snaps \cup {rec.epoch} ELSE snaps

\* a best summary stamped with the loop index
BestJson_index(e, score) == [exists |-> TRUE, epoch |-> e, macro_f1 |-> score]

\* utils.save_dict_to_json of a best summary stamped with its epoch
BestJson(e, score) == [exists |-> TRUE, epoch |-> e + 1, macro_f1 |-> score]

\* ---------------------------------------------------- train_and_evaluate
\* lines 94-106: defaults, and the load of the restore point if one is given
Start ==
    /\ pc = "start"
    /\ \E rf \in {"none", "last", "best"} :
        /\ restore_file' = rf
        /\ best_train_macro_f1' = TrackersAtStart(rf).train
        /\ best_test_macro_f1' = TrackersAtStart(rf).test
        /\ IF rf = "none"
              THEN /\ start_epoch' = 0
                   /\ epoch' = 0
                   /\ pc' = "loop"
                   /\ carried' = NoTrackers
                   /\ UNCHANGED <<error, model_state>>
              ELSE IF ~ckpt[rf].exists
                      THEN /\ pc' = "error"
                           /\ error' = "FileNotFoundError"
                           /\ start_epoch' = 0
                           /\ UNCHANGED <<epoch, model_state, carried>>
                      ELSE /\ start_epoch' = StartEpoch(LoadCheckpoint(ckpt[rf]))
                           /\ epoch' = start_epoch'
                           /\ model_state' = ckpt[rf].state_dict
                           /\ carried' = carried_at[rf]
                           /\ pc' = "loop"
                           /\ UNCHANGED error
    /\ UNCHANGED <<cfgvars, diskvars, saves, trajectory, last_completed, carried_at,
                   phases, iteration_log>>
    /\ UNCHANGED <<run, train_macro_f1, test_macro_f1, is_train_best, is_test_best,
                   state, bound>>
    /\ UNCHANGED <<grad, batch_idx, i, loss, loss_batch, accumulate, outputs, steps,
                   summary_batch>>

\* lines 108-112 and 31-41: the loop test, and the entry into train_one_epoch
LoopHead ==
    /\ pc = "loop"
    /\ IF epoch < params.num_epochs
          THEN /\ pc' = "batch"
               /\ batch_idx' = 0
               /\ i' = 0
               /\ loss' = 0
               /\ loss_batch' = <<>>
               /\ accumulate' = <<>>
               /\ outputs' = <<>>
               /\ steps' = <<>>
               /\ bound' = bound \ {"i", "loss"}
               /\ iteration_log' = <<>>
          ELSE /\ pc' = "terminal"
               /\ UNCHANGED <<batch_idx, i, loss, loss_batch, accumulate, outputs, steps,
                               bound, iteration_log>>
    /\ UNCHANGED <<cfgvars, diskvars, model_state, grad, summary_batch>>
    /\ UNCHANGED <<saves, trajectory, last_completed, carried, carried_at, phases>>
    /\ UNCHANGED <<error, run, restore_file, start_epoch, epoch, best_train_macro_f1,
                   best_test_macro_f1, train_macro_f1, test_macro_f1,
                   is_train_best, is_test_best, state>>

\* lines 114-115: evaluate on the test partition
EvaluateTest ==
    /\ pc = "eval_test"
    /\ \E s \in Scores :
        /\ test_macro_f1' = s
    /\ phases' = phases \cup {<<epoch + 1, "eval_test">>}
    /\ iteration_log' = Append(iteration_log, "eval_test")
    /\ pc' = "eval_train"
    /\ UNCHANGED <<cfgvars, diskvars, trainvars, saves, trajectory, last_completed,
                   carried, carried_at>>
    /\ UNCHANGED <<error, run, restore_file, start_epoch, epoch, best_train_macro_f1,
                   best_test_macro_f1, train_macro_f1, is_train_best, is_test_best,
                   state, bound>>

\* an iteration that goes from the evaluations to the best updates and writes
\* no per-epoch summary file
EvaluateTrain_noEpochFiles ==
    /\ pc = "eval_train"
    /\ \E s \in Scores :
        /\ train_macro_f1' = s
        /\ is_train_best' = IsBest(s, best_train_macro_f1)
    /\ is_test_best' = IsBest(test_macro_f1, best_test_macro_f1)
    /\ bound' = bound \cup {"is_test_best"}
    /\ phases' = phases \cup {<<epoch + 1, "eval_train">>}
    /\ iteration_log' = Append(iteration_log, "eval_train")
    /\ pc' = "train_best"
    /\ UNCHANGED <<cfgvars, diskvars, trainvars, saves, trajectory, last_completed,
                   carried, carried_at>>
    /\ UNCHANGED <<error, run, restore_file, start_epoch, epoch, best_train_macro_f1,
                   best_test_macro_f1, test_macro_f1, state>>

\* lines 117-126: evaluate on the train partition, then the two decisions
EvaluateTrain ==
    /\ pc = "eval_train"
    /\ \E s \in Scores :
        /\ train_macro_f1' = s
        /\ is_train_best' = IsBest(s, best_train_macro_f1)
    /\ is_test_best' = IsBest(test_macro_f1, best_test_macro_f1)
    /\ bound' = bound \cup {"is_test_best"}
    /\ phases' = phases \cup {<<epoch + 1, "eval_train">>}
    /\ iteration_log' = Append(iteration_log, "eval_train")
    /\ pc' = "save_train_json"
    /\ UNCHANGED <<cfgvars, diskvars, trainvars, saves, trajectory, last_completed,
                   carried, carried_at>>
    /\ UNCHANGED <<error, run, restore_file, start_epoch, epoch, best_train_macro_f1,
                   best_test_macro_f1, test_macro_f1, state>>

\* lines 135-138: the per-epoch train summary file
SaveTrainJson ==
    /\ pc = "save_train_json"
    /\ epoch_json' = epoch_json \cup {<<"train", epoch + 1>>}
    /\ iteration_log' = Append(iteration_log, "train_json")
    /\ pc' = "save_test_json"
    /\ UNCHANGED <<cfgvars, trainvars, ckpt, periodic, best_json>>
    /\ UNCHANGED <<saves, trajectory, last_completed, carried, carried_at, phases>>
    /\ UNCHANGED <<error, run, restore_file, start_epoch, epoch, best_train_macro_f1,
                   best_test_macro_f1, train_macro_f1, test_macro_f1,
                   is_train_best, is_test_best, state, bound>>

\* lines 140-143: the per-epoch test summary file
SaveTestJson ==
    /\ pc = "save_test_json"
    /\ epoch_json' = epoch_json \cup {<<"test", epoch + 1>>}
    /\ iteration_log' = Append(iteration_log, "test_json")
    /\ pc' = "train_best"
    /\ UNCHANGED <<cfgvars, trainvars, ckpt, periodic, best_json>>
    /\ UNCHANGED <<saves, trajectory, last_completed, carried, carried_at, phases>>
    /\ UNCHANGED <<error, run, restore_file, start_epoch, epoch, best_train_macro_f1,
                   best_test_macro_f1, train_macro_f1, test_macro_f1,
                   is_train_best, is_test_best, state, bound>>

\* lines 146-153: the train tracker and best_train_f1.json
UpdateTrainBest ==
    /\ pc = "train_best"
    /\ IF is_train_best
          THEN /\ best_train_macro_f1' = train_macro_f1
               /\ best_json' = [best_json EXCEPT !["train"] = BestJson(epoch, train_macro_f1)]
          ELSE UNCHANGED <<best_train_macro_f1, best_json>>
    /\ carried' = [carried EXCEPT !.train =
                      IF IsBest(train_macro_f1, @) THEN train_macro_f1 ELSE @]
    /\ iteration_log' = Append(iteration_log, "train_best")
    /\ pc' = "test_best"
    /\ UNCHANGED <<cfgvars, trainvars, ckpt, periodic, epoch_json>>
    /\ UNCHANGED <<saves, trajectory, last_completed, carried_at, phases>>
    /\ UNCHANGED <<error, run, restore_file, start_epoch, epoch, best_test_macro_f1,
                   train_macro_f1, test_macro_f1, is_train_best, is_test_best,
                   state, bound>>

\* lines 155-168: the test tracker and best_test_f1.json
UpdateTestBest ==
    /\ pc = "test_best"
    /\ IF is_test_best
          THEN /\ best_test_macro_f1' = test_macro_f1
               /\ best_json' = [best_json EXCEPT !["test"] = BestJson(epoch, test_macro_f1)]
          ELSE UNCHANGED <<best_test_macro_f1, best_json>>
    /\ carried' = [carried EXCEPT !.test =
                      IF IsBest(test_macro_f1, @) THEN test_macro_f1 ELSE @]
    /\ iteration_log' = Append(iteration_log, "test_best")
    /\ pc' = "save_checkpoint"
    /\ UNCHANGED <<cfgvars, trainvars, ckpt, periodic, epoch_json>>
    /\ UNCHANGED <<saves, trajectory, last_completed, carried_at, phases>>
    /\ UNCHANGED <<error, run, restore_file, start_epoch, epoch, best_train_macro_f1,
                   train_macro_f1, test_macro_f1, is_train_best, is_test_best,
                   state, bound>>

\* lines 170-178: the checkpoint record and its save; then the next loop index
SaveCheckpoint ==
    /\ pc = "save_checkpoint"
    /\ LET rec == CheckpointState(epoch, model_state)
           best == SaveIsBest(is_train_best, is_test_best)
           per == PeriodicDue(epoch, params.save_every)
       IN  /\ state' = rec
           /\ bound' = bound \cup {"state"}
           /\ ckpt' = SaveCheckpointSlots(ckpt, rec, best)
           /\ periodic' = SaveCheckpointPeriodic(periodic, rec, per)
           /\ saves' = Append(saves, [at |-> "loop", index |-> epoch, state |-> rec,
                                      is_best |-> best, periodic |-> per])
           /\ carried_at' = [carried_at EXCEPT !["last"] = carried,
                                               !["best"] = IF best THEN carried ELSE @]
    /\ trajectory' = Append(trajectory,
            [index |-> epoch, test_macro_f1 |-> test_macro_f1,
             is_test_best |-> is_test_best])
    /\ last_completed' = epoch
    /\ iteration_log' = Append(iteration_log, "save_checkpoint")
    /\ epoch' = epoch + 1
    /\ pc' = "loop"
    /\ UNCHANGED <<cfgvars, trainvars, epoch_json, best_json, carried, phases>>
    /\ UNCHANGED <<error, run, restore_file, start_epoch, best_train_macro_f1,
                   best_test_macro_f1, train_macro_f1, test_macro_f1,
                   is_train_best, is_test_best>>

\* a save after the loop that forces the best flag as well
TerminalSave_forcesBest ==
    /\ pc = "terminal"
    /\ IF "state" \notin bound
          THEN /\ pc' = "error"
               /\ error' = "UnboundLocalError: state"
               /\ UNCHANGED <<ckpt, periodic, saves, carried_at>>
          ELSE /\ pc' = "returned"
               /\ error' = error
               /\ ckpt' = SaveCheckpointSlots(ckpt, state, TRUE)
               /\ periodic' = SaveCheckpointPeriodic(periodic, state, TRUE)
               /\ saves' = Append(saves, [at |-> "terminal", index |-> state.epoch - 1,
                                          state |-> state, is_best |-> TRUE,
                                          periodic |-> TRUE])
               /\ carried_at' = [carried_at EXCEPT !["last"] = carried,
                                                   !["best"] = carried]
    /\ UNCHANGED <<cfgvars, trainvars, epoch_json, best_json, trajectory,
                   last_completed, carried, phases, iteration_log>>
    /\ UNCHANGED <<run, restore_file, start_epoch, epoch, best_train_macro_f1,
                   best_test_macro_f1, train_macro_f1, test_macro_f1,
                   is_train_best, is_test_best, state, bound>>

\* lines 182-184: the save after the loop
TerminalSave ==
    /\ pc = "terminal"
    /\ IF "state" \notin bound
          THEN /\ pc' = "error"
               /\ error' = "UnboundLocalError: state"
               /\ UNCHANGED <<ckpt, periodic, saves, carried_at>>
          ELSE /\ pc' = "returned"
               /\ error' = error
               /\ ckpt' = SaveCheckpointSlots(ckpt, state, is_test_best)
               /\ periodic' = SaveCheckpointPeriodic(periodic, state, TRUE)
               /\ saves' = Append(saves, [at |-> "terminal", index |-> state.epoch - 1,
                                          state |-> state, is_best |-> is_test_best,
                                          periodic |-> TRUE])
               /\ carried_at' = [carried_at EXCEPT !["last"] = carried,
                                     !["best"] = IF is_test_best THEN carried ELSE @]
    /\ UNCHANGED <<cfgvars, trainvars, epoch_json, best_json, trajectory,
                   last_completed, carried, phases, iteration_log>>
    /\ UNCHANGED <<run, restore_file, start_epoch, epoch, best_train_macro_f1,
                   best_test_macro_f1, train_macro_f1, test_macro_f1,
                   is_train_best, is_test_best, state, bound>>

\* ------------------------------------------------------------ the process
Running == {"start", "loop", "batch", "finalize", "eval_test", "eval_train",
            "save_train_json", "save_test_json", "train_best", "test_best",
            "save_checkpoint", "terminal"}

\* lines 265-281 of main: a new process with a new model and optimizer; the
\* files on disk are what the earlier invocations left
NewProcess ==
    /\ run < MaxRuns
    /\ run' = run + 1
    /\ pc' = "start"
    /\ error' = "none"
    /\ restore_file' = "none"
    /\ start_epoch' = 0
    /\ epoch' = 0
    /\ best_train_macro_f1' = 0
    /\ best_test_macro_f1' = 0
    /\ train_macro_f1' = 0
    /\ test_macro_f1' = 0
    /\ is_train_best' = FALSE
    /\ is_test_best' = FALSE
    /\ state' = NoCheckpoint
    /\ bound' = {}
    /\ model_state' = 0
    /\ grad' = {}
    /\ batch_idx' = 0
    /\ i' = 0
    /\ loss' = 0
    /\ loss_batch' = <<>>
    /\ accumulate' = <<>>
    /\ outputs' = <<>>
    /\ steps' = <<>>
    /\ summary_batch' = NoSummary
    /\ saves' = <<>>
    /\ trajectory' = <<>>
    /\ iteration_log' = <<>>
    /\ UNCHANGED <<cfgvars, diskvars, last_completed, carried, carried_at, phases>>

\* the process is killed at any point of its execution and started again
Crash ==
    /\ pc \in Running
    /\ NewProcess

\* the process has ended, by return or by an exception, and is started again
Restart ==
    /\ pc \in {"returned", "error"}
    /\ NewProcess

\* -------------------------------------------------------- specifications
InitProcess ==
    /\ error = "none"
    /\ run = 1
    /\ restore_file = "none"
    /\ start_epoch = 0
    /\ epoch = 0
    /\ best_train_macro_f1 = 0
    /\ best_test_macro_f1 = 0
    /\ train_macro_f1 = 0
    /\ test_macro_f1 = 0
    /\ is_train_best = FALSE
    /\ is_test_best = FALSE
    /\ state = NoCheckpoint
    /\ bound = {}
    /\ model_state = 0
    /\ grad = {}
    /\ batch_idx = 0
    /\ i = 0
    /\ loss = 0
    /\ loss_batch = <<>>
    /\ accumulate = <<>>
    /\ outputs = <<>>
    /\ steps = <<>>
    /\ summary_batch = NoSummary
    /\ ckpt = [s \in {"last", "best"} |-> NoCheckpoint]
    /\ periodic = {}
    /\ epoch_json = {}
    /\ best_json = [p \in {"train", "test"} |-> NoBestJson]
    /\ saves = <<>>
    /\ trajectory = <<>>
    /\ last_completed = -1
    /\ carried = NoTrackers
    /\ carried_at = [s \in {"last", "best"} |-> NoTrackers]
    /\ phases = {}
    /\ iteration_log = <<>>

\* the epoch loop: a process about to call train_and_evaluate on an empty
\* experiment directory
Init ==
    /\ params \in [num_epochs : 0..MaxEpochs,
                   update_grad_every : 1..MaxRunK,
                   save_every : 1..MaxSaveEvery,
                   threshold : {5}]
    /\ data_loader \in SeqsUpTo(Batches({1}, {1}), MaxRunBatches)
    /\ pc = "start"
    /\ InitProcess

\* the steps of one process
NextRun ==
    \/ Start
    \/ LoopHead
    \/ TrainBatch
    \/ TrainLoopElse
    \/ TrainReturn
    \/ EvaluateTest
    \/ EvaluateTrain
    \/ SaveTrainJson
    \/ SaveTestJson
    \/ UpdateTrainBest
    \/ UpdateTestBest
    \/ SaveCheckpoint
    \/ TerminalSave

\* one process, started on an empty experiment directory and left to run
SpecRun == Init /\ [][NextRun]_vars

\* one process on an empty directory whose training passes return any of
\* several summaries: the one batch of the loader has any loss
InitSummary ==
    /\ params \in [num_epochs : 1..MaxEpochs,
                   update_grad_every : {1},
                   save_every : 1..MaxSaveEvery,
                   threshold : {5}]
    /\ data_loader \in {<<b>> : b \in Batches({1}, 1..MaxLoss)}
    /\ pc = "start"
    /\ InitProcess

SpecSummary == InitSummary /\ [][NextRun]_vars

Next ==
    \/ NextRun
    \/ Crash
    \/ Restart

\* processes that are killed or end, and are started again on the same directory
Spec == Init /\ [][Next]_vars

\* five batches whose losses are 1.0, 2.0, 3.0, 4.0, 5.0
ScenarioLoader == [b \in 1..5 |-> [rows |-> 1, loss |-> b, y_pred |-> <<5>>]]

\* one training pass: train_one_epoch entered with any loader and period
InitTrain ==
    /\ params \in [num_epochs : {1},
                   update_grad_every : 1..MaxK,
                   save_every : {1},
                   threshold : {5}]
    /\ data_loader \in SeqsUpTo(Batches(1..MaxRows, 1..MaxLoss), MaxBatches)
                        \cup {ScenarioLoader}
    /\ pc = "batch"
    /\ InitProcess

NextTrain ==
    \/ TrainBatch
    \/ TrainLoopElse
    \/ TrainReturn

SpecTrain == InitTrain /\ [][NextTrain]_vars

\* a batch that holds the given prediction scores, one row each
PredBatch(y) == [rows |-> Len(y), loss |-> 1, y_pred |-> y]

\* one training pass over one batch of any prediction scores, with any threshold
InitBinarize ==
    /\ params \in [num_epochs : {1},
                   update_grad_every : {1},
                   save_every : {1},
                   threshold : 0..MaxPred]
    /\ data_loader \in {<<PredBatch(y)>> : y \in SeqsUpTo(0..MaxPred, MaxPredRows) \ {<<>>}}
    /\ pc = "batch"
    /\ InitProcess

SpecBinarize == InitBinarize /\ [][NextTrain]_vars

\* ------------------------------------------------------------- properties
Ceil(n, k) == (n + k - 1) \div k

TrainPassOver == pc \in {"finalize", "eval_test"}

\* C1: for N >= 1 batches and accumulation period K >= 1, one call of
\* train_one_epoch applies ceil(N / K) optimizer steps and records that many
\* losses, also when K > N and when N is a multiple of K.
C1_StepsAreCeil ==
    (TrainPassOver /\ Len(data_loader) >= 1) =>
        /\ Len(steps) = Ceil(Len(data_loader), params.update_grad_every)
        /\ Len(loss_batch) = Ceil(Len(data_loader), params.update_grad_every)

\* a pass over 3 batches with K = 2 has ended: one full group and a flushed tail
C1_Witness ==
    /\ pc = "eval_test"
    /\ Len(data_loader) = 3
    /\ params.update_grad_every = 2
    /\ Len(steps) = 2
    /\ Len(loss_batch) = 2

\* the rows the accumulator holds that came from batch b
RowsFrom(b) == {p \in DOMAIN accumulate : accumulate[p][1] = b}

\* C10: every batch is passed to the accumulator exactly once, in arrival
\* order, whether or not it falls on an accumulation boundary: the finalized
\* rows number the sum of the batch sizes, and the rows of batch i precede
\* those of batch i+1.
C10_AccumulatorHoldsEveryBatch ==
    pc \in {"batch", "finalize", "eval_test"} =>
        /\ \A b \in 0..(Len(data_loader) - 1) :
              Cardinality(RowsFrom(b)) =
                  IF b < batch_idx THEN data_loader[b + 1].rows ELSE 0
        /\ \A p, q \in DOMAIN accumulate :
              p < q => \/ accumulate[p][1] < accumulate[q][1]
                       \/ /\ accumulate[p][1] = accumulate[q][1]
                          /\ accumulate[p][2] < accumulate[q][2]
        /\ TrainPassOver =>
              Len(accumulate) = SumSeq([b \in 1..Len(data_loader) |-> data_loader[b].rows])
        /\ pc = "eval_test" => summary_batch.rows = Len(accumulate)

\* three batches of sizes 2, 1, 2 with K = 2: batches 0 and 2 are off the boundary
C10_Witness ==
    /\ pc = "eval_test"
    /\ params.update_grad_every = 2
    /\ Len(data_loader) = 3
    /\ data_loader[1].rows = 2 /\ data_loader[2].rows = 1 /\ data_loader[3].rows = 2
    /\ accumulate = <<<<0, 1>>, <<0, 2>>, <<1, 1>>, <<2, 1>>, <<2, 2>>>>

\* ---- the epoch loop
Resumed == restore_file # "none"

\* C2: a run resumed from the checkpoint that loop iteration e wrote starts
\* its loop at index e+1, so no index is skipped and none is repeated.
C2_ResumeStartsAtNextIndex ==
    (restore_file = "last" /\ trajectory = <<>>) =>
        /\ pc \in {"batch", "finalize", "eval_test"} => epoch = last_completed + 1
        /\ pc = "terminal" => last_completed + 1 >= params.num_epochs

\* C3: a resumed run takes, at every epoch, the decisions and holds the
\* tracker values of a run that was never interrupted and saw the same scores.
C3_ResumeReproducesTrackers ==
    /\ (Resumed /\ pc = "save_train_json") =>
          /\ is_train_best = IsBest(train_macro_f1, carried.train)
          /\ is_test_best = IsBest(test_macro_f1, carried.test)
    /\ (Resumed /\ pc = "save_checkpoint") =>
          /\ best_train_macro_f1 = carried.train
          /\ best_test_macro_f1 = carried.test

\* save_checkpoint calls of this run that carry the record of loop index e
SavesOf(e) == {j \in DOMAIN saves : saves[j].index = e}
LoopSavesOf(e) == {j \in SavesOf(e) : saves[j].at = "loop"}
TerminalSaves == {j \in DOMAIN saves : saves[j].at = "terminal"}
Executed == {trajectory[k].index : k \in DOMAIN trajectory}

\* C4 as stated: the record of every executed epoch is persisted exactly once.
C4_SavedExactlyOnce ==
    \A e \in Executed : Cardinality(SavesOf(e)) = 1

\* C4 amended: the save inside the loop persists the record of every executed
\* epoch exactly once; the save after the loop persists the record of the last
\* executed epoch once more, and no other record.
C4_SavedOnceInLoopAndLastAgain ==
    /\ \A j \in DOMAIN saves :
          /\ saves[j].index \in Executed
          /\ saves[j].state.epoch = saves[j].index + 1
    /\ \A e \in Executed : Cardinality(LoopSavesOf(e)) = 1
    /\ Cardinality(TerminalSaves) = IF pc = "returned" THEN 1 ELSE 0
    /\ \A j \in TerminalSaves :
          /\ j = Len(saves)
          /\ saves[j].index = trajectory[Len(trajectory)].index
          /\ saves[j].state = saves[j - 1].state

\* a run of three epochs has returned: four saves, the last record twice
C4_Witness ==
    /\ pc = "returned"
    /\ Len(trajectory) = 3
    /\ Len(saves) = 4
    /\ Cardinality(SavesOf(2)) = 2

\* C5: the save inside the loop always writes the "last" slot, writes the
\* "best" slot iff is_test_best (is_train_best has no influence), and asks for
\* a periodic snapshot iff (epoch + 1) % save_every = 0.
C5_LoopSaveSlots ==
    [][(pc = "save_checkpoint" /\ pc' = "loop") =>
          /\ ckpt'["last"] = CheckpointState(epoch, model_state)
          /\ ckpt'["best"] = IF is_test_best THEN ckpt'["last"] ELSE ckpt["best"]
          /\ saves'[Len(saves')].is_best = is_test_best
          /\ saves'[Len(saves')].periodic = ((epoch + 1) % params.save_every = 0)
          /\ periodic' = IF (epoch + 1) % params.save_every = 0
                            THEN periodic \cup {epoch + 1}
                            ELSE periodic]_vars

\* a save of an epoch that is train-best and not test-best, on a periodic epoch
C5_Witness ==
    /\ pc = "loop"
    /\ saves # <<>>
    /\ is_train_best /\ ~is_test_best
    /\ ~saves[Len(saves)].is_best
    /\ saves[Len(saves)].periodic
    /\ ckpt["best"] # ckpt["last"]

\* C6: once the loop has ended the process persists one final checkpoint and
\* returns normally, also when the loop body ran zero times.
C6_TerminalSaveReturns ==
    [][(pc = "terminal" /\ run' = run) =>
          /\ pc' = "returned"
          /\ Len(saves') = Len(saves) + 1]_vars

\* the work of the epoch numbered n (the loop index n - 1) is all done
FullyCompleted(n) ==
    /\ {<<n, "train">>, <<n, "eval_test">>, <<n, "eval_train">>} \subseteq phases
    /\ {<<"train", n>>, <<"test", n>>} \subseteq epoch_json

\* C7: at every point of execution the epoch stored in the "last" slot is an
\* epoch whose training pass, evaluations and per-epoch summary files were all
\* done before the checkpoint was written, and no step other than a save of a
\* checkpoint alters a slot.
C7_LastSlotIsCompletedEpoch ==
    /\ [](ckpt["last"].exists => FullyCompleted(ckpt["last"].epoch))
    /\ [][ckpt' # ckpt => pc \in {"save_checkpoint", "terminal"}]_vars

\* the process was killed in the middle of epoch 2, after its evaluations:
\* the slot still holds epoch 1
C7_Witness ==
    /\ run = 2
    /\ pc = "start"
    /\ ckpt["last"].exists
    /\ ckpt["last"].epoch = 1
    /\ <<2, "eval_train">> \in phases
    /\ ~FullyCompleted(2)

\* C8: within one run neither tracker ever decreases.
C8_TrackersNonDecreasing ==
    [][run' = run =>
          /\ best_train_macro_f1' >= best_train_macro_f1
          /\ best_test_macro_f1' >= best_test_macro_f1]_vars

\* three epochs scored 0.05, 0.10, 0.00 on both partitions: the trackers rose
\* once and then kept their value
C8_Witness ==
    /\ pc = "loop"
    /\ Len(trajectory) = 3
    /\ trajectory[1].test_macro_f1 = 5
    /\ trajectory[2].test_macro_f1 = 10
    /\ trajectory[3].test_macro_f1 = 0
    /\ best_test_macro_f1 = 10
    /\ best_train_macro_f1 = 10
    /\ train_macro_f1 = 0

TestScores == [k \in DOMAIN trajectory |-> trajectory[k].test_macro_f1]
TestDecisions == [k \in DOMAIN trajectory |-> trajectory[k].is_test_best]

\* the latest completed epoch, numbered from 1, whose test score is the maximum
LatestMaxEpoch ==
    CHOOSE k \in DOMAIN trajectory :
        /\ \A j \in DOMAIN trajectory : TestScores[j] <= TestScores[k]
        /\ \A j \in DOMAIN trajectory : TestScores[j] = TestScores[k] => j <= k

\* C9: in a fresh run is_test_best holds at an epoch exactly when its test
\* score is >= that of every earlier epoch; the best test artifacts hold the
\* latest epoch that reached the maximum; the scores 0.10, 0.10, 0.05 give the
\* decisions true, true, false and leave epoch 2 in the best artifacts.
C9_TieCountsAsBest ==
    (restore_file = "none" /\ pc \in {"loop", "terminal", "returned"}
                           /\ trajectory # <<>>) =>
        /\ \A k \in DOMAIN trajectory :
              TestDecisions[k] = (\A j \in 1..(k - 1) : TestScores[k] >= TestScores[j])
        /\ best_json["test"].epoch = LatestMaxEpoch
        /\ best_json["test"].macro_f1 = TestScores[LatestMaxEpoch]
        /\ ckpt["best"].epoch = LatestMaxEpoch
        /\ TestScores = <<10, 10, 5>> =>
              /\ TestDecisions = <<TRUE, TRUE, FALSE>>
              /\ best_json["test"].epoch = 2
              /\ ckpt["best"].epoch = 2

\* the fresh run that scored 0.10, 0.10, 0.05 has returned
C9_Witness ==
    /\ restore_file = "none"
    /\ pc = "returned"
    /\ TestScores = <<10, 10, 5>>
    /\ TestDecisions = <<TRUE, TRUE, FALSE>>

\* ---- the training pass, continued
MaxOf(S) == CHOOSE x \in S : \A y \in S : y <= x

\* C11: the value recorded for a group is the loss of the group's last batch,
\* not a sum or a mean over the group; with K = 2 and five batches of losses
\* 1.0 .. 5.0 the steps come after batches 2, 4 and 5, the recorded losses are
\* 2.0, 4.0, 5.0 and loss_avg is their mean, 11.0 / 3.
C11_RecordsLastLossOfGroup ==
    TrainPassOver =>
        /\ Len(loss_batch) = Len(steps)
        /\ \A g \in DOMAIN steps :
              /\ steps[g] # {}
              /\ loss_batch[g] = data_loader[MaxOf(steps[g]) + 1].loss
        /\ (data_loader = ScenarioLoader /\ params.update_grad_every = 2) =>
              /\ steps = <<{0, 1}, {2, 3}, {4}>>
              /\ loss_batch = <<2, 4, 5>>
              /\ pc = "eval_test" =>
                    /\ summary_batch.loss_sum = 11
                    /\ summary_batch.loss_n = 3

\* the scenario pass has returned its summary
C11_Witness ==
    /\ pc = "eval_test"
    /\ data_loader = ScenarioLoader
    /\ params.update_grad_every = 2
    /\ loss_batch = <<2, 4, 5>>
    /\ summary_batch.loss_n = 3

\* ---- binarization
\* the rows whose binarized prediction is 1
Positives(out) == {k \in DOMAIN out : out[k] = 1}

ThresholdScenario ==
    /\ batch_idx = 1
    /\ params.threshold = 5
    /\ data_loader[1].y_pred = <<4, 5, 6>>

\* C12 as stated: with threshold 0.5 the scores 0.4, 0.5, 0.6 are binarized
\* to 0, 1, 1.
C12_ScoreAtThresholdIsPositive ==
    ThresholdScenario => outputs = <<0, 1, 1>>

\* C12 amended: with threshold 0.5 the scores 0.4, 0.5, 0.6 are binarized
\* to 0, 0, 1: a score equal to the threshold is not positive.
C12_ScoreAtThresholdIsNegative ==
    ThresholdScenario => outputs = <<0, 0, 1>>

\* the pass over the batch of scores 0.4, 0.5, 0.6 has returned
C12_Witness ==
    /\ pc = "eval_test"
    /\ ThresholdScenario
    /\ outputs = <<0, 0, 1>>

\* C13: for fixed scores, the labels binarized to 1 under a threshold are a
\* subset of those under any lower threshold, so the count of positives never
\* grows with the threshold.
C13_BinarizeMonotone ==
    batch_idx = 1 =>
        \A t \in 0..MaxPred :
            LET other == Binarize(data_loader[1].y_pred, t)
            IN  /\ t >= params.threshold =>
                      /\ Positives(other) \subseteq Positives(outputs)
                      /\ Cardinality(Positives(other)) <= Cardinality(Positives(outputs))
                /\ t <= params.threshold =>
                      /\ Positives(outputs) \subseteq Positives(other)
                      /\ Cardinality(Positives(outputs)) <= Cardinality(Positives(other))

\* scores 0.2, 0.4, 0.6 under threshold 0.3: two positives, where the
\* threshold 0.5 leaves one and the threshold 0.1 gives three
C13_Witness ==
    /\ pc = "eval_test"
    /\ params.threshold = 3
    /\ data_loader[1].y_pred = <<2, 4, 6>>
    /\ outputs = <<0, 1, 1>>
    /\ Binarize(data_loader[1].y_pred, 5) = <<0, 0, 1>>
    /\ Binarize(data_loader[1].y_pred, 1) = <<1, 1, 1>>

\* ---- gradient accumulation
\* the batches whose gradient some applied step included
Applied == UNION {steps[g] : g \in DOMAIN steps}

\* the batches lo, lo + 1, ..., hi
Consecutive(S) == \E lo \in S : \E hi \in S : S = lo..hi

\* C14: over N >= 1 batches every batch's gradient is included in exactly one
\* applied step, each step covers at most K consecutive batches, gradients are
\* cleared right after each step, and when the pass ends nothing accumulated is
\* left unapplied: one extra step flushes the incomplete last group when
\* N % K # 0 and no extra step is taken when N % K = 0.
C14_EveryGradientAppliedOnce ==
    /\ [](/\ \A g \in DOMAIN steps :
                /\ steps[g] # {}
                /\ Consecutive(steps[g])
                /\ Cardinality(steps[g]) <= params.update_grad_every
          /\ \A g, h \in DOMAIN steps : g # h => steps[g] \cap steps[h] = {}
          /\ Applied \cap grad = {}
          /\ (pc = "batch") => (Applied \cup grad = 0..(batch_idx - 1))
          /\ (TrainPassOver /\ Len(data_loader) >= 1) =>
                /\ grad = {}
                /\ Applied = 0..(Len(data_loader) - 1))
    /\ [][/\ Len(steps') > Len(steps) =>
                /\ Len(steps') = Len(steps) + 1
                /\ grad' = {}
                /\ steps'[Len(steps')] = grad \cup (IF pc' = "batch" THEN {batch_idx} ELSE {})
          /\ (pc = "batch" /\ pc' = "finalize") =>
                (Len(steps') = Len(steps) + 1
                    <=> Len(data_loader) % params.update_grad_every # 0)]_vars

\* three batches with K = 2: the step over batches 0 and 1, then the flush of batch 2
C14_Witness ==
    /\ pc = "finalize"
    /\ Len(data_loader) = 3
    /\ params.update_grad_every = 2
    /\ steps = <<{0, 1}, {2}>>
    /\ grad = {}

\* ---- the order of one loop iteration
IterationOrder ==
    <<"train", "eval_test", "eval_train", "train_json", "test_json",
      "train_best", "test_best", "save_checkpoint">>

IsPrefix(s, full) == Len(s) <= Len(full) /\ \A k \in DOMAIN s : s[k] = full[k]

\* the current iteration has done the step ev
Done(ev) == \E k \in DOMAIN iteration_log : iteration_log[k] = ev

\* the number of the epoch the current iteration works on: the save of line 176
\* is the last step, after it the loop index has moved on
IterationEpoch == IF Done("save_checkpoint") THEN epoch ELSE epoch + 1

InIteration ==
    pc \in {"batch", "finalize", "eval_test", "eval_train", "save_train_json",
            "save_test_json", "train_best", "test_best", "save_checkpoint"}

\* C15: every loop iteration does, in this order, exactly one training pass,
\* one evaluation of the test partition and one of the train partition, the
\* writing of both per-epoch summary files, the best-tracker updates with
\* their best files, and the checkpoint save; no step of the next epoch
\* starts before the checkpoint save of this one has completed.
C15_IterationOrder ==
    /\ []((InIteration \/ iteration_log # <<>>) =>
            LET n == IterationEpoch
            IN  /\ IsPrefix(iteration_log, IterationOrder)
                /\ Done("train") <=> <<n, "train">> \in phases
                /\ Done("train") =>
                      model_state = n * Ceil(Len(data_loader), params.update_grad_every)
                /\ ~Done("train") =>
                      model_state <= n * Ceil(Len(data_loader), params.update_grad_every)
                /\ Done("eval_test") <=> <<n, "eval_test">> \in phases
                /\ Done("eval_train") <=> <<n, "eval_train">> \in phases
                /\ Done("train_json") <=> <<"train", n>> \in epoch_json
                /\ Done("test_json") <=> <<"test", n>> \in epoch_json
                /\ (Done("train_best") /\ is_train_best) <=>
                      best_json["train"] = BestJson(n - 1, train_macro_f1)
                /\ (Done("test_best") /\ is_test_best) <=>
                      best_json["test"] = BestJson(n - 1, test_macro_f1)
                /\ Done("save_checkpoint") <=>
                      (ckpt["last"].exists /\ ckpt["last"].epoch = n)
                /\ Cardinality({k \in DOMAIN saves : saves[k].at = "loop"})
                      = (IF Done("save_checkpoint") THEN n ELSE n - 1))
    /\ [][(pc = "loop" /\ pc' = "batch") =>
             \/ iteration_log = <<>> /\ epoch = start_epoch
             \/ /\ iteration_log = IterationOrder
                /\ ckpt["last"].epoch = epoch
                /\ saves[Len(saves)].index = epoch - 1]_vars

\* the second iteration is between its best updates and its checkpoint save
C15_Witness ==
    /\ pc = "save_checkpoint"
    /\ epoch = 1
    /\ iteration_log = SubSeq(IterationOrder, 1, 7)
    /\ ckpt["last"].epoch = 1
    /\ <<"test", 2>> \in epoch_json

\* ---- the summary of the training pass
\* the decisions of the save_checkpoint calls of this run
CheckpointDecisions ==
    [k \in DOMAIN saves |->
        [at |-> saves[k].at, index |-> saves[k].index,
         is_best |-> saves[k].is_best, periodic |-> saves[k].periodic]]

\* what best tracking and persistence produce
Tracked ==
    <<is_train_best, is_test_best, best_train_macro_f1, best_test_macro_f1,
      epoch_json, best_json, CheckpointDecisions>>

\* C16: the summary returned by train_one_epoch has no influence on best
\* tracking or persistence. Returning it changes none of the decisions,
\* trackers, metric files and checkpoint decisions, and every later change of
\* them is a function of the evaluate results, the trackers, the loop index
\* and the configuration alone, so runs that differ only in the returned
\* summaries and get the same evaluate results produce the same sequences.
C16_SummaryHasNoInfluence ==
    [][/\ summary_batch' # summary_batch => Tracked' = Tracked
       /\ pc \in {"batch", "finalize"} => Tracked' = Tracked
       /\ (pc = "eval_train" /\ pc' = "save_train_json") =>
             /\ is_train_best' = (train_macro_f1' >= best_train_macro_f1)
             /\ is_test_best' = (test_macro_f1 >= best_test_macro_f1)
       /\ (pc = "save_train_json" /\ pc' = "save_test_json") =>
             epoch_json' = epoch_json \cup {<<"train", epoch + 1>>}
       /\ (pc = "save_test_json" /\ pc' = "train_best") =>
             epoch_json' = epoch_json \cup {<<"test", epoch + 1>>}
       /\ (pc = "train_best" /\ pc' = "test_best") =>
             /\ best_train_macro_f1' =
                   (IF is_train_best THEN train_macro_f1 ELSE best_train_macro_f1)
             /\ best_json' =
                   (IF is_train_best
                       THEN [best_json EXCEPT !["train"] =
                               [exists |-> TRUE, epoch |-> epoch + 1,
                                macro_f1 |-> train_macro_f1]]
                       ELSE best_json)
       /\ (pc = "test_best" /\ pc' = "save_checkpoint") =>
             /\ best_test_macro_f1' =
                   (IF is_test_best THEN test_macro_f1 ELSE best_test_macro_f1)
             /\ best_json' =
                   (IF is_test_best
                       THEN [best_json EXCEPT !["test"] =
                               [exists |-> TRUE, epoch |-> epoch + 1,
                                macro_f1 |-> test_macro_f1]]
                       ELSE best_json)
       /\ (pc = "save_checkpoint" /\ pc' = "loop") =>
             CheckpointDecisions' = Append(CheckpointDecisions,
                 [at |-> "loop", index |-> epoch, is_best |-> is_test_best,
                  periodic |-> ((epoch + 1) % params.save_every = 0)])
       /\ (pc = "terminal" /\ pc' = "returned") =>
             CheckpointDecisions' = Append(CheckpointDecisions,
                 [at |-> "terminal", index |-> epoch - 1, is_best |-> is_test_best,
                  periodic |-> TRUE])]_vars

\* the pass of the second epoch returned a summary whose one loss is 2.0, and
\* the epoch went on to a test score below the tracker: no best, no new best file
C16_Witness ==
    /\ pc = "loop"
    /\ epoch = 2
    /\ summary_batch.loss_sum = 2
    /\ best_test_macro_f1 = 10
    /\ test_macro_f1 = 5
    /\ ~is_test_best
    /\ best_json["test"].epoch = 1

\* ---- the trackers of a resumed run
\* the resumed run is in its first loop iteration
FirstEpochAfterResume == Resumed /\ trajectory = <<>> /\ InIteration

\* C17: a resumed run starts both trackers at 0.0 again, so the first epoch it
\* executes is flagged best for both partitions whatever its scores (they are
\* never below 0) and overwrites best_train_f1.json, best_test_f1.json and
\* the best checkpoint slot, also when its test score is below the best one
\* recorded before the interruption.
C17_ResumeResetsTrackers ==
    /\ (Resumed /\ trajectory = <<>> /\
            pc \in {"loop", "batch", "finalize", "eval_test", "eval_train"}) =>
          /\ best_train_macro_f1 = 0
          /\ best_test_macro_f1 = 0
    /\ (FirstEpochAfterResume /\ Done("eval_train")) =>
          /\ is_train_best
          /\ is_test_best
    /\ (FirstEpochAfterResume /\ Done("train_best")) =>
          /\ best_json["train"] = BestJson(epoch, train_macro_f1)
          /\ best_train_macro_f1 = train_macro_f1
    /\ (FirstEpochAfterResume /\ Done("test_best")) =>
          /\ best_json["test"] = BestJson(epoch, test_macro_f1)
          /\ best_test_macro_f1 = test_macro_f1
    /\ (Resumed /\ Len(trajectory) = 1 /\ pc \in {"loop", "terminal", "returned"}) =>
          /\ trajectory[1].is_test_best
          /\ ckpt["best"].exists
          /\ ckpt["best"].epoch = trajectory[1].index + 1
          /\ best_json["test"].epoch = trajectory[1].index + 1
          /\ best_json["test"].macro_f1 = trajectory[1].test_macro_f1

\* a resumed run has saved its first epoch as the best one with a test score
\* below the best score of the interrupted process
C17_Witness ==
    /\ Resumed
    /\ Len(trajectory) = 1
    /\ pc = "loop"
    /\ trajectory[1].test_macro_f1 < carried.test
    /\ best_json["test"].macro_f1 = trajectory[1].test_macro_f1
    /\ ckpt["best"].epoch = epoch

\* ---- the empty loader
\* C18: a loader that yields zero batches makes train_one_epoch end in a
\* division by zero raised at the averaging of the recorded losses, with no
\* summary returned and no optimizer step applied; for N >= 1 and K >= 1 the
\* recorded loss list is not empty when the averaging is reached.
C18_EmptyLoaderDividesByZero ==
    /\ (Len(data_loader) = 0 /\ pc = "error") =>
          /\ error = "ZeroDivisionError"
          /\ batch_idx = 0
          /\ summary_batch = NoSummary
          /\ steps = <<>>
          /\ model_state = 0
    /\ (Len(data_loader) = 0) => pc \in {"batch", "finalize", "error"}
    /\ (Len(data_loader) >= 1 /\ pc = "finalize") => Len(loss_batch) >= 1

\* ---- best_test_f1.json and the best checkpoint slot
\* best_test_f1.json and the best slot name the same epoch, or neither exists
BestStampsAgree ==
    /\ best_json["test"].exists = ckpt["best"].exists
    /\ best_json["test"].epoch = ckpt["best"].epoch

\* between the write of best_test_f1.json and the save_checkpoint that follows
\* it in the same iteration
BetweenBestFileAndSave == pc = "save_checkpoint" /\ is_test_best

\* C19 as stated: at the end of every loop iteration the epoch stamped in
\* best_test_f1.json equals the epoch in the best slot, in fresh and resumed
\* runs, and the two differ only between the write of best_test_f1.json and
\* the following save_checkpoint of the same iteration.
C19_BestStampsDifferOnlyInWindow ==
    /\ Done("save_checkpoint") => BestStampsAgree
    /\ ~BestStampsAgree => BetweenBestFileAndSave

\* C19 amended: the two agree at the end of every loop iteration, in fresh and
\* resumed runs; in the first process, and in any process once it has ended
\* an iteration, they differ only between the write of best_test_f1.json and
\* the following save_checkpoint. A process killed between the two leaves them
\* different for the next process until its first iteration has saved.
C19_BestStampsAgreeAfterSave ==
    /\ Done("save_checkpoint") => BestStampsAgree
    /\ (~BestStampsAgree /\ ~BetweenBestFileAndSave) =>
          /\ run > 1
          /\ trajectory = <<>>

\* a resumed run has ended its first iteration, the one of epoch 3: the file
\* and the slot both name it
C19_Witness ==
    /\ Resumed
    /\ pc = "loop"
    /\ Done("save_checkpoint")
    /\ epoch = 3
    /\ best_json["test"].exists
    /\ best_json["test"].epoch = 3
    /\ ckpt["best"].epoch = 3

\* ---- the save after the loop
\* C20: the save after the loop passes the record and the is_test_best flag of
\* the last executed epoch and forces only the periodic flag: the last and
\* best slots hold after it what they held after the final loop iteration,
\* the best slot being rewritten only if the last epoch was test-best, and the
\* trackers and the metric files are unchanged.
C20_TerminalSaveFrame ==
    [][(pc = "terminal" /\ pc' = "returned") =>
          LET final == trajectory[Len(trajectory)]
              call == saves'[Len(saves')]
          IN  /\ trajectory # <<>>
              /\ Len(saves') = Len(saves) + 1
              /\ call.at = "terminal"
              /\ call.state = CheckpointState(final.index, model_state)
              /\ call.state = saves[Len(saves)].state
              /\ call.is_best = final.is_test_best
              /\ call.is_best = saves[Len(saves)].is_best
              /\ call.periodic
              /\ ckpt' = ckpt
              /\ ckpt'["last"] = call.state
              /\ call.is_best => ckpt'["best"] = call.state
              /\ periodic' = periodic \cup {final.index + 1}
              /\ UNCHANGED <<best_train_macro_f1, best_test_macro_f1, epoch_json,
                             best_json, is_train_best, is_test_best, state>>]_vars

\* the run has returned; its last epoch, the third, was not test-best and not a
\* periodic one: the best slot still holds an earlier epoch and the only new
\* file is the snapshot of epoch 3
C20_Witness ==
    /\ pc = "returned"
    /\ saves[Len(saves)].at = "terminal"
    /\ saves[Len(saves)].index = 2
    /\ ~saves[Len(saves)].is_best
    /\ params.save_every = 2
    /\ ckpt["last"].epoch = 3
    /\ ckpt["best"].epoch < 3
    /\ 3 \in periodic

====
